---------------------------- MODULE Spec2Model ----------------------------
(***************************************************************************)
(* Model of generer_page.py: the bilingual page generator.                 *)
(*                                                                         *)
(* A text is a sequence of lexemes (strings).  A lexeme is either a word   *)
(* (a run of \w characters), a white-space character, or a piece of        *)
(* punctuation such as "{{" or "'".  The regular expressions of the source *)
(* are translated lexeme by lexeme.                                        *)
(***************************************************************************)
EXTENDS Integers, Sequences, FiniteSets, TLC

VARIABLES
    pc,            \* position of the operation under way
    template,      \* render_template / generate_pages: the template text
    context,       \* render_template: the context argument
    result,        \* render_template: the local `result`
    afterFor,      \* value of `result` after line 141
    afterCond,     \* value of `result` after line 150
    segs,          \* the pieces the template was assembled from (ghost)
    md_lines,      \* the lines the Markdown text was assembled from (ghost)
    text,          \* markdown_to_html: the argument
    html,          \* markdown_to_html: the returned fragment
    url_parts,     \* the parts the URL was assembled from (ghost)
    url,           \* extract_youtube_id: the argument
    video_id,      \* extract_youtube_id: the returned identifier
    config,        \* build_context / generate_pages: the content document
    lang,          \* build_context: the language
    built,         \* build_context: what it returned, or that it raised
    config_file,   \* generate_pages: the file at config_path
    template_file, \* generate_pages: the file at template_path
    fs,            \* generate_pages: the files of output_dir
    fs0,           \* the files of output_dir when the run started (ghost)
    location       \* the page the browser was sent to from index.html

rvars == <<template, context, result, afterFor, afterCond, segs>>
mvars == <<md_lines, text, html>>
yvars == <<url_parts, url, video_id>>
bvars == <<config, lang, built>>
gvars == <<config_file, template_file, fs, fs0, location>>
vars  == <<pc, rvars, mvars, yvars, bvars, gvars>>

-----------------------------------------------------------------------------
(* Texts *)

WS == {" ", "\n"}

Punct == {"{%", "%}", "{{", "}}", "'", ".", "==", "[", "]", "(", ")", "-", "U+2022", "/", "_",
          "<p>", "</p>", "<ul>", "</ul>", "<li>", "</li>", "<br>",
          "<a href=\"", "\" target=\"_blank\">", "</a>"}

\* \w+ : a lexeme that is neither white space nor punctuation
IsWord(t) == t \notin WS /\ t \notin Punct

Min(S) == CHOOSE x \in S : \A y \in S : x <= y

RECURSIVE Flatten(_)
Flatten(ss) == IF ss = <<>> THEN <<>> ELSE Head(ss) \o Flatten(Tail(ss))

\* s[i..] starts with p
StartsAt(s, p, i) ==
    /\ i >= 1
    /\ i + Len(p) - 1 <= Len(s)
    /\ \A k \in 1..Len(p) : s[i + k - 1] = p[k]

\* str.find(p, i): the least index >= i where p occurs in s, 0 when none
Find(s, p, i) ==
    LET S == {j \in i..(Len(s) - Len(p) + 1) : StartsAt(s, p, j)}
    IN  IF S = {} THEN 0 ELSE Min(S)

RECURSIVE ReplaceFrom(_, _, _, _)
ReplaceFrom(s, old, new, i) ==
    LET j == Find(s, old, i)
    IN  IF j = 0 THEN SubSeq(s, i, Len(s))
        ELSE SubSeq(s, i, j - 1) \o new \o ReplaceFrom(s, old, new, j + Len(old))

\* str.replace(old, new): every non-overlapping occurrence, left to right
StrReplace(s, old, new) == ReplaceFrom(s, old, new, 1)

\* number of non-overlapping occurrences of p in s (str.count)
RECURSIVE CountFrom(_, _, _)
CountFrom(s, p, i) ==
    LET j == Find(s, p, i)
    IN  IF j = 0 THEN 0 ELSE 1 + CountFrom(s, p, j + Len(p))

Count(s, p) == CountFrom(s, p, 1)

\* \s* from index i: the first index >= i that holds no white space
RECURSIVE SkipSp(_, _)
SkipSp(s, i) == IF i <= Len(s) /\ s[i] \in WS THEN SkipSp(s, i + 1) ELSE i

\* \w+ from index i, greedy
RECURSIVE SkipWord(_, _)
SkipWord(s, i) == IF i <= Len(s) /\ IsWord(s[i]) THEN SkipWord(s, i + 1) ELSE i

At(s, i) == IF i >= 1 /\ i <= Len(s) THEN s[i] ELSE "<eof>"

-----------------------------------------------------------------------------
(* Values of a context: str, int or list of items.  An item is a dict,      *)
(* kept as the sequence of its (key, value) entries in insertion order.     *)

StrV(toks)  == [kind |-> "str",  s |-> toks, n |-> 0, items |-> <<>>]
IntV(k)     == [kind |-> "int",  s |-> <<>>, n |-> k, items |-> <<>>]
ListV(its)  == [kind |-> "list", s |-> <<>>, n |-> 0, items |-> its]
Absent      == [kind |-> "none", s |-> <<>>, n |-> 0, items |-> <<>>]

Entry(k, v) == [key |-> k, val |-> v]

Has(d, k) == \E i \in 1..Len(d) : d[i].key = k

\* dict.get(k): Absent when the key is missing
Get(d, k) ==
    LET S == {i \in 1..Len(d) : d[i].key = k}
    IN  IF S = {} THEN Absent ELSE d[Min(S)].val

\* str(value)
Str(v) == IF v.kind = "int" THEN <<ToString(v.n)>> ELSE v.s

\* bool(value)
Truthy(v) ==
    CASE v.kind = "str"  -> v.s # <<>>
      [] v.kind = "int"  -> v.n # 0
      [] v.kind = "list" -> v.items # <<>>
      [] v.kind = "dict" -> v.items # <<>>
      [] OTHER           -> FALSE

DictV(es)   == [kind |-> "dict", s |-> <<>>, n |-> 0, items |-> es]

\* the result of a regular expression at one index: the groups and where it stops
NoMatch == [ok |-> FALSE, stop |-> 0, g1 |-> <<>>, g2 |-> <<>>, g3 |-> <<>>, g4 |-> <<>>]

-----------------------------------------------------------------------------
(* markdown_to_html *)

\* str.strip(): white space removed at both ends
RECURSIVE RStrip(_)
RStrip(s) == IF s # <<>> /\ s[Len(s)] \in WS THEN RStrip(SubSeq(s, 1, Len(s) - 1)) ELSE s

Strip(s) == RStrip(SubSeq(s, SkipSp(s, 1), Len(s)))

\* str.split(sep): the pieces between the non-overlapping occurrences of sep
RECURSIVE SplitFrom(_, _, _)
SplitFrom(s, sep, i) ==
    LET j == Find(s, sep, i)
    IN  IF j = 0 THEN <<SubSeq(s, i, Len(s))>>
        ELSE <<SubSeq(s, i, j - 1)>> \o SplitFrom(s, sep, j + Len(sep))

Split(s, sep) == SplitFrom(s, sep, 1)

\* link_pattern  \[([^\]]+)\]\(([^)]+)\)  at index i
LinkMatchAt(s, i) ==
    LET j == Find(s, <<"]">>, i + 1)
        k == Find(s, <<")">>, j + 2)
    IN  IF /\ At(s, i) = "["
           /\ j > i + 1
           /\ At(s, j + 1) = "("
           /\ k > j + 2
        THEN [NoMatch EXCEPT !.ok = TRUE, !.stop = k + 1,
                             !.g1 = SubSeq(s, i + 1, j - 1), !.g2 = SubSeq(s, j + 2, k - 1)]
        ELSE NoMatch

\* link_pattern.sub(r'<a href="\2" target="_blank">\1</a>', text)
RECURSIVE LinkSub(_, _)
LinkSub(s, i) ==
    LET S == {j \in i..Len(s) : LinkMatchAt(s, j).ok}
    IN  IF S = {} THEN SubSeq(s, i, Len(s))
        ELSE LET j == Min(S)
                 m == LinkMatchAt(s, j)
             IN  SubSeq(s, i, j - 1)
                    \o <<"<a href=\"">> \o m.g2 \o <<"\" target=\"_blank\">">> \o m.g1 \o <<"</a>">>
                    \o LinkSub(s, m.stop)

\* bullet_pattern.match(line):  ^[U+2022\-]\s+
IsBullet(line) == At(line, 1) \in {"-", "U+2022"} /\ At(line, 2) \in WS

\* bullet_pattern.sub('', line) on a single line
StripBullet(line) == IF IsBullet(line) THEN SubSeq(line, SkipSp(line, 2), Len(line)) ELSE line

RECURSIVE MapStrip(_)
MapStrip(ls) == IF ls = <<>> THEN <<>> ELSE <<Strip(Head(ls))>> \o MapStrip(Tail(ls))

\* '<ul>' + ''.join(f'<li>{item}</li>' for item in items) + '</ul>'
RECURSIVE ListItems(_)
ListItems(items) ==
    IF items = <<>> THEN <<>>
    ELSE <<"<li>">> \o Head(items) \o <<"</li>">> \o ListItems(Tail(items))

UlOf(items) == <<"<ul>">> \o ListItems(items) \o <<"</ul>">>

\* the pending list forgotten instead of emitted
FlushListDropped(in_list, list_items) == <<>>

\* lines 67-70: a line that is no bullet closes the pending list
FlushList(in_list, list_items) == IF in_list THEN UlOf(list_items) ELSE <<>>

\* lines 56-77: the mixed block, line by line (lines already stripped)
RECURSIVE MixedLines(_, _, _)
MixedLines(lines, in_list, list_items) ==
    IF lines = <<>>
    THEN (IF list_items # <<>> THEN UlOf(list_items) ELSE <<>>)
    ELSE LET line == Head(lines)
         IN  IF IsBullet(line)
             THEN MixedLines(Tail(lines), TRUE, Append(list_items, StripBullet(line)))
             ELSE FlushList(in_list, list_items)
                    \o (IF line # <<>> THEN <<"<p>">> \o line \o <<"</p>">> ELSE <<>>)
                    \o MixedLines(Tail(lines), FALSE, IF in_list THEN <<>> ELSE list_items)

\* '<br>'.join(l.strip() for l in lines if l.strip())
RECURSIVE JoinBr(_)
JoinBr(lines) ==
    IF lines = <<>> THEN <<>>
    ELSE IF Head(lines) = <<>> THEN JoinBr(Tail(lines))
    ELSE LET rest == JoinBr(Tail(lines))
         IN  Head(lines) \o (IF rest = <<>> THEN <<>> ELSE <<"<br>">> \o rest)

\* lines 47-82: one paragraph (already stripped, not empty)
ParaHtml(para) ==
    LET lines   == MapStrip(Split(para, <<"\n">>))
        bullets == {i \in 1..Len(lines) : IsBullet(lines[i])}
    IN  IF bullets # {} /\ Cardinality(bullets) = Len(lines)
        THEN UlOf([i \in 1..Len(lines) |-> StripBullet(lines[i])])
        ELSE IF bullets # {}
        THEN MixedLines(lines, FALSE, <<>>)
        ELSE <<"<p>">> \o JoinBr(lines) \o <<"</p>">>

\* lines 41-84: the paragraphs in order, empty ones skipped, joined by "\n"
RECURSIVE ParasHtml(_)
ParasHtml(paras) ==
    IF paras = <<>> THEN <<>>
    ELSE LET para == Strip(Head(paras))
             rest == ParasHtml(Tail(paras))
         IN  IF para = <<>> THEN rest
             ELSE <<ParaHtml(para)>> \o rest

RECURSIVE JoinNl(_)
JoinNl(parts) ==
    IF parts = <<>> THEN <<>>
    ELSE IF Len(parts) = 1 THEN Head(parts)
    ELSE Head(parts) \o <<"\n">> \o JoinNl(Tail(parts))

markdown_to_html(text_) ==
    IF text_ = <<>> THEN <<>>
    ELSE JoinNl(ParasHtml(Split(Strip(LinkSub(text_, 1)), <<"\n", "\n">>)))

-----------------------------------------------------------------------------
(* extract_youtube_id.  In a URL the three shapes are one lexeme each and   *)
(* every other lexeme is a single character.                                *)

IdLen == 11

Shapes == {"youtube.com/watch?v=", "youtu.be/", "youtube.com/embed/"}

\* [a-zA-Z0-9_-]
IdChars == {"a", "Z", "0", "9", "_", "-", "d", "Q", "w", "4", "X", "c"}

\* the pattern with the token delimited: no further character of the class
YoutubeMatchDelimited(u, i) ==
    /\ At(u, i) \in Shapes
    /\ \A k \in 1..IdLen : At(u, i + k) \in IdChars
    /\ At(u, i + IdLen + 1) \notin IdChars

\* YOUTUBE_PATTERN at index i: a shape, then IdLen characters of the class
YoutubeMatchAt(u, i) ==
    /\ At(u, i) \in Shapes
    /\ \A k \in 1..IdLen : At(u, i + k) \in IdChars

\* YOUTUBE_PATTERN.search(url): group 1 of the leftmost match, "" when none
extract_youtube_id(u) ==
    LET S == {i \in 1..Len(u) : YoutubeMatchAt(u, i)}
    IN  IF S = {} THEN <<>> ELSE SubSeq(u, Min(S) + 1, Min(S) + IdLen)

-----------------------------------------------------------------------------
(* render_template, pass 1: loop blocks *)

\* \{%\s*for\s+(\w+)\s+in\s+(\w+)\s*%\}  at index i; stop is the index after it
ForOpenAt(s, i) ==
    LET j1 == SkipSp(s, i + 1)
        j2 == SkipSp(s, j1 + 1)
        j3 == SkipWord(s, j2)
        j4 == SkipSp(s, j3)
        j5 == SkipSp(s, j4 + 1)
        j6 == SkipWord(s, j5)
        j7 == SkipSp(s, j6)
    IN  IF /\ At(s, i) = "{%"
           /\ At(s, j1) = "for"
           /\ j2 > j1 + 1
           /\ j3 > j2
           /\ j4 > j3
           /\ At(s, j4) = "in"
           /\ j5 > j4 + 1
           /\ j6 > j5
           /\ At(s, j7) = "%}"
        THEN [NoMatch EXCEPT !.ok = TRUE, !.stop = j7 + 1,
                             !.g1 = SubSeq(s, j2, j3 - 1), !.g2 = SubSeq(s, j5, j6 - 1)]
        ELSE NoMatch

\* \{%\s*endfor\s*%\}  at index i: the index after it, 0 when it does not match
EndForAt(s, i) ==
    LET j1 == SkipSp(s, i + 1)
        j2 == SkipSp(s, j1 + 1)
    IN  IF At(s, i) = "{%" /\ At(s, j1) = "endfor" /\ At(s, j2) = "%}"
        THEN j2 + 1 ELSE 0

\* for_pattern at index i: (.*?) stops at the first endfor delimiter (re.DOTALL)
ForMatchAt(s, i) ==
    LET o == ForOpenAt(s, i)
        E == IF o.ok THEN {e \in o.stop..Len(s) : EndForAt(s, e) # 0} ELSE {}
    IN  IF E = {} THEN NoMatch
        ELSE [o EXCEPT !.g3 = SubSeq(s, o.stop, Min(E) - 1), !.stop = EndForAt(s, Min(E))]

\* lines 133-137: one item's copy of the body, its fields replaced one after another
RECURSIVE ItemBody(_, _, _, _)
ItemBody(body, var_name, item, k) ==
    IF k > Len(item) THEN body
    ELSE CHOOSE r \in
            { ItemBody(b, var_name, item, k + 1) :
                b \in { StrReplace(body,
                                   <<"{{", " ">> \o var_name \o <<".", item[k].key, " ", "}}">>,
                                   Str(item[k].val)) } } : TRUE

RECURSIVE RenderedItems(_, _, _, _)
RenderedItems(body, var_name, items, k) ==
    IF k > Len(items) THEN <<>>
    ELSE ItemBody(body, var_name, items[k], 1) \o RenderedItems(body, var_name, items, k + 1)

\* a pass either returns a text or raises
Ok(t)  == [err |-> FALSE, text |-> t]
Raise  == [err |-> TRUE,  text |-> <<>>]

\* context.get(list_name, []) where list_name is the text of group 2
GetName(ctx, name) == IF Len(name) = 1 THEN Get(ctx, name[1]) ELSE Absent

\* replace_for(match): "" for a falsy value, the rendered items of a list; iterating
\* a non-empty str yields characters and an int is not iterable, and both raise
replace_for(ctx, m) ==
    LET items == GetName(ctx, m.g2)
    IN  IF ~Truthy(items) THEN Ok(<<>>)
        ELSE IF items.kind = "list" THEN Ok(RenderedItems(m.g3, m.g1, items.items, 1))
        ELSE Raise

\* for_pattern.sub(replace_for, result): leftmost matches, left to right, the
\* replacement text is not scanned again
RECURSIVE ForSub(_, _, _)
ForSub(ctx, s, i) ==
    LET S == {j \in i..Len(s) : ForMatchAt(s, j).ok}
    IN  IF S = {} THEN Ok(SubSeq(s, i, Len(s)))
        ELSE LET j == Min(S)
                 m == ForMatchAt(s, j)
                 r == replace_for(ctx, m)
                 rest == ForSub(ctx, s, m.stop)
             IN  IF r.err \/ rest.err THEN Raise
                 ELSE Ok(SubSeq(s, i, j - 1) \o r.text \o rest.text)

-----------------------------------------------------------------------------
(* render_template, pass 2: ternary expressions *)

\* the index of the next "'" at or after i, 0 when none
NextQuote(s, i) == Find(s, <<"'">>, i)

\* cond_pattern at index i
CondMatchAt(s, i) ==
    LET q1 == SkipSp(s, i + 1)
        q2 == NextQuote(s, q1 + 1)
        j1 == SkipSp(s, q2 + 1)
        j2 == SkipSp(s, j1 + 1)
        j3 == SkipWord(s, j2)
        j4 == SkipSp(s, j3)
        q3 == SkipSp(s, j4 + 1)
        q4 == NextQuote(s, q3 + 1)
        j5 == SkipSp(s, q4 + 1)
        q5 == SkipSp(s, j5 + 1)
        q6 == NextQuote(s, q5 + 1)
        j6 == SkipSp(s, q6 + 1)
    IN  IF /\ At(s, i) = "{{"
           /\ At(s, q1) = "'"
           /\ q2 > q1 + 1
           /\ j1 > q2 + 1
           /\ At(s, j1) = "if"
           /\ j2 > j1 + 1
           /\ j3 > j2
           /\ At(s, j4) = "=="
           /\ At(s, q3) = "'"
           /\ q4 > q3 + 1
           /\ j5 > q4 + 1
           /\ At(s, j5) = "else"
           /\ At(s, q5) = "'"
           /\ q6 > q5
           /\ At(s, j6) = "}}"
        THEN [ok |-> TRUE, stop |-> j6 + 1,
              g1 |-> SubSeq(s, q1 + 1, q2 - 1), g2 |-> SubSeq(s, j2, j3 - 1),
              g3 |-> SubSeq(s, q3 + 1, q4 - 1), g4 |-> SubSeq(s, q5 + 1, q6 - 1)]
        ELSE NoMatch

\* context.get(var, check_val) == check_val: an absent variable compares equal
replace_cond_default(ctx, m) ==
    LET v == GetName(ctx, m.g2)
    IN  IF v.kind = "none" \/ (v.kind = "str" /\ v.s = m.g3) THEN m.g1 ELSE m.g4

\* context.get(var) == check_val: only a str compares equal to a str
replace_cond(ctx, m) ==
    LET v == GetName(ctx, m.g2)
    IN  IF v.kind = "str" /\ v.s = m.g3 THEN m.g1 ELSE m.g4

RECURSIVE CondSub(_, _, _)
CondSub(ctx, s, i) ==
    LET S == {j \in i..Len(s) : CondMatchAt(s, j).ok}
    IN  IF S = {} THEN SubSeq(s, i, Len(s))
        ELSE LET j == Min(S)
                 m == CondMatchAt(s, j)
             IN  SubSeq(s, i, j - 1) \o replace_cond(ctx, m) \o CondSub(ctx, s, m.stop)

-----------------------------------------------------------------------------
(* render_template, pass 3: plain variables *)

VarRef(key) == <<"{{", " ", key, " ", "}}">>

\* lines 153-155: the entries in the dict's order, lists and dicts skipped
\* (each intermediate text is bound as a value before the next entry is applied)
RECURSIVE VarSub(_, _, _)
VarSub(ctx, s, k) ==
    IF k > Len(ctx) THEN s
    ELSE CHOOSE r \in
            { VarSub(ctx, t, k + 1) :
                t \in { IF ctx[k].val.kind \in {"list", "dict"} THEN s
                        ELSE StrReplace(s, VarRef(ctx[k].key), Str(ctx[k].val)) } } : TRUE

\* the three passes in the order of lines 141, 150, 153
ForPass(ctx, s)  == ForSub(ctx, s, 1)
CondPass(ctx, s) == CondSub(ctx, s, 1)
\* the ternaries resolved once more after the variables
VarPassRescan(ctx, s) == CondSub(ctx, VarSub(ctx, s, 1), 1)
VarPass(ctx, s)  == VarSub(ctx, s, 1)

render_template(tpl, ctx) ==
    CHOOSE r \in
        { IF r1.err THEN Raise
          ELSE CHOOSE v \in { Ok(VarPass(ctx, r2)) : r2 \in {CondPass(ctx, r1.text)} } : TRUE :
            r1 \in {ForPass(ctx, tpl)} } : TRUE

-----------------------------------------------------------------------------
(* get_text and build_context.  An expression that raises has the value     *)
(* RaiseV; build_context raises when any of its expressions does.           *)

RaiseV   == [kind |-> "raise", s |-> <<>>, n |-> 0, items |-> <<>>]
EmptyDict == DictV(<<>>)
EmptyStr  == StrV(<<>>)

\* d.get(k, default): only a dict has the method
DGet(d, k, default) ==
    IF d.kind # "dict" THEN RaiseV
    ELSE IF Has(d.items, k) THEN Get(d.items, k) ELSE default

\* lines 164-172
get_text(obj, key, lang_) ==
    LET value == DGet(obj, key, EmptyDict)
    IN  IF value.kind = "raise" THEN RaiseV
        ELSE IF value.kind = "dict" THEN DGet(value, lang_, DGet(value, "fr", EmptyStr))
        ELSE StrV(Str(value))

\* value.strip(): a method of str only
PyStrip(v) == IF v.kind = "str" THEN StrV(Strip(v.s)) ELSE RaiseV

\* markdown_to_html(value): a falsy value gives "", another non-str fails in re.sub
PyMarkdown(v) ==
    IF v.kind = "raise" THEN RaiseV
    ELSE IF ~Truthy(v) THEN EmptyStr
    ELSE IF v.kind = "str" THEN StrV(markdown_to_html(v.s))
    ELSE RaiseV

\* the characters of a language code
Chars(l) == CASE l = "fr" -> <<"f", "r">> [] l = "en" -> <<"e", "n">> [] OTHER -> <<l>>

\* str.replace(old, new, 1): the first occurrence only
ReplaceFirst(s, old, new) ==
    LET j == Find(s, old, 1)
    IN  IF j = 0 THEN s
        ELSE SubSeq(s, 1, j - 1) \o new \o SubSeq(s, j + Len(old), Len(s))

\* line 254 with the replacement limited to the first occurrence
oiseaux_lien_first(config_, lang_) ==
    LET u == DGet(DGet(config_, "liens", EmptyDict), "galerie_oiseaux", EmptyStr)
    IN  IF u.kind = "str"
        THEN StrV(ReplaceFirst(u.s, <<"_", "f", "r">>, <<"_">> \o Chars(lang_)))
        ELSE RaiseV

\* line 254: liens.galerie_oiseaux with '_fr' replaced by '_' + lang
oiseaux_lien(config_, lang_) ==
    LET u == DGet(DGet(config_, "liens", EmptyDict), "galerie_oiseaux", EmptyStr)
    IN  IF u.kind = "str"
        THEN StrV(StrReplace(u.s, <<"_", "f", "r">>, <<"_">> \o Chars(lang_)))
        ELSE RaiseV

\* lines 184-190
nav_labels(lang_) ==
    IF lang_ = "en"
    THEN [recherche |-> "Research", medias |-> "Media", oiseaux |-> "Photos",
          scroll |-> "Scroll", gallery |-> "View gallery"]
    ELSE [recherche |-> "Recherche", medias |-> "Medias", oiseaux |-> "Photos",
          scroll |-> "Defiler", gallery |-> "Voir la galerie"]

\* iterating a value in a for statement: the items of a list; a falsy str or dict
\* has none; the dicts of this model are not iterated otherwise
IterItems(v) ==
    IF v.kind = "list" THEN [err |-> FALSE, items |-> v.items]
    ELSE IF v.kind \in {"str", "dict"} /\ ~Truthy(v) THEN [err |-> FALSE, items |-> <<>>]
    ELSE [err |-> TRUE, items |-> <<>>]

\* lines 193-200; an entry whose value raises marks the list as raising
RECURSIVE Videos(_, _)
Videos(vs, lang_) ==
    IF vs = <<>> THEN <<>>
    ELSE LET v   == DictV(Head(vs))
             u   == DGet(v, "url", EmptyStr)
             vid == IF u.kind = "str" THEN StrV(extract_youtube_id(u.s)) ELSE RaiseV
         IN  (IF vid.kind = "str" /\ vid.s = <<>> THEN <<>>
              ELSE << <<Entry("video_id", vid), Entry("titre", get_text(v, "titre", lang_))>> >>)
                \o Videos(Tail(vs), lang_)

\* lines 203-209
RECURSIVE Decouvertes(_, _)
Decouvertes(ds, lang_) ==
    IF ds = <<>> THEN <<>>
    ELSE LET d == DictV(Head(ds))
         IN  << <<Entry("titre", get_text(d, "titre", lang_)),
                  Entry("annee", DGet(d, "annee", EmptyStr)),
                  Entry("url", DGet(d, "url", EmptyStr))>> >>
                \o Decouvertes(Tail(ds), lang_)

ItemsRaise(items) ==
    \E i \in 1..Len(items) : \E j \in 1..Len(items[i]) : items[i][j].val.kind = "raise"

\* lines 257-259: the first value of footer_text
FooterFirst(config_, lang_) ==
    IF DGet(config_, "footer", Absent).kind = "dict"
    THEN get_text(DGet(config_, "footer", EmptyDict), IF lang_ = "fr" THEN "fr" ELSE "en", lang_)
    ELSE DGet(DGet(config_, "footer", EmptyDict), lang_, EmptyStr)

\* lines 263-265: the value footer_text ends with
FooterFinal(config_, lang_, first) ==
    LET footer == DGet(config_, "footer", EmptyDict)
    IN  IF footer.kind = "dict" THEN DGet(footer, lang_, DGet(footer, "fr", EmptyStr))
        ELSE first

Section(config_, name) == DGet(config_, name, EmptyDict)

\* lines 175-267
build_context(config_, lang_) ==
    LET labels == nav_labels(lang_)
        vsrc   == IterItems(DGet(Section(config_, "medias"), "videos", ListV(<<>>)))
        dsrc   == IterItems(DGet(Section(config_, "medias"), "decouvertes", ListV(<<>>)))
        videos == Videos(vsrc.items, lang_)
        decouvertes == Decouvertes(dsrc.items, lang_)
        first  == FooterFirst(config_, lang_)
        ctx ==
          << Entry("lang", StrV(<<lang_>>)),
             Entry("nom", DGet(config_, "nom", EmptyStr)),
             Entry("titre", get_text(config_, "titre", lang_)),
             Entry("photo", DGet(config_, "photo", EmptyStr)),
             Entry("css_path", DGet(config_, "css_path", EmptyStr)),
             Entry("affiliation_inst", DGet(Section(config_, "affiliation"), "institution", EmptyStr)),
             Entry("affiliation_dept", get_text(Section(config_, "affiliation"), "departement", lang_)),
             Entry("email", DGet(Section(config_, "liens"), "email", EmptyStr)),
             Entry("orcid", DGet(Section(config_, "liens"), "orcid", EmptyStr)),
             Entry("nav_recherche", StrV(<<labels.recherche>>)),
             Entry("nav_medias", StrV(<<labels.medias>>)),
             Entry("nav_oiseaux", StrV(<<labels.oiseaux>>)),
             Entry("scroll_hint", StrV(<<labels.scroll>>)),
             Entry("oiseaux_bouton", StrV(<<labels.gallery>>)),
             Entry("intro", PyStrip(get_text(config_, "intro", lang_))),
             Entry("recherche_titre", get_text(Section(config_, "recherche"), "titre", lang_)),
             Entry("recherche_photo", DGet(Section(config_, "recherche"), "photo", EmptyStr)),
             Entry("recherche_contenu",
                   PyMarkdown(get_text(Section(config_, "recherche"), "contenu", lang_))),
             Entry("medias_titre", get_text(Section(config_, "medias"), "titre", lang_)),
             Entry("ads_url", DGet(Section(config_, "medias"), "ads_url", EmptyStr)),
             Entry("ads_texte", get_text(Section(config_, "medias"), "ads_texte", lang_)),
             Entry("decouvertes_titre", get_text(Section(config_, "medias"), "decouvertes_titre", lang_)),
             Entry("videos", ListV(videos)),
             Entry("decouvertes", ListV(decouvertes)),
             Entry("oiseaux_titre", get_text(Section(config_, "oiseaux"), "titre", lang_)),
             Entry("oiseaux_photo", DGet(Section(config_, "oiseaux"), "photo", EmptyStr)),
             Entry("oiseaux_contenu",
                   PyMarkdown(get_text(Section(config_, "oiseaux"), "contenu", lang_))),
             Entry("oiseaux_lien", oiseaux_lien(config_, lang_)),
             Entry("footer_text", FooterFinal(config_, lang_, first)) >>
    IN  IF \/ config_.kind # "dict"
           \/ vsrc.err \/ dsrc.err
           \/ ItemsRaise(videos) \/ ItemsRaise(decouvertes)
           \/ first.kind = "raise"
           \/ \E i \in 1..Len(ctx) : ctx[i].val.kind = "raise"
        THEN [err |-> TRUE, ctx |-> <<>>]
        ELSE [err |-> FALSE, ctx |-> ctx]

-----------------------------------------------------------------------------
(* The templates and contexts render_template is applied to *)

MaxPieces == 3

Tern(vt, var, cv, vf) ==
    <<"{{", " ", "'">> \o vt \o <<"'", " ", "if", " ", var, " ", "==", " ", "'">> \o cv
        \o <<"'", " ", "else", " ", "'">> \o vf \o <<"'", " ", "}}">>

TernLang == Tern(<<"T">>, "lang", <<"fr">>, <<"F">>)
\* its variable is absent from every context and its valFalse is "}}"
TernM    == Tern(<<"T">>, "m", <<"fr">>, <<"}}">>)
\* a ternary expression left open: its closing "}}" is missing
TernOpen == SubSeq(TernLang, 1, Len(TernLang) - 1)
ItemRef(f) == <<"{{", " ", "v", ".", f, " ", "}}">>
ForOpen(l) == <<"{%", " ", "for", " ", "v", " ", "in", " ", l, " ", "%}">>
EndFor     == <<"{%", " ", "endfor", " ", "%}">>
LoopText   == ForOpen("L") \o <<"A">> \o EndFor

SimplePieces == {"x", "m", "tl", "tm", "to"}
BodyPieces   == {"x", "tl", "a", "b"}
ListNames    == {"L", "E", "M", "S"}

PieceText(p) ==
    CASE p = "x"  -> VarRef("x")
      [] p = "m"  -> VarRef("m")
      [] p = "tl" -> TernLang
      [] p = "tm" -> TernM
      [] p = "to" -> TernOpen
      [] p = "a"  -> ItemRef("a")
      [] p = "b"  -> ItemRef("b")

RECURSIVE PiecesText(_)
PiecesText(ps) == IF ps = <<>> THEN <<>> ELSE PieceText(Head(ps)) \o PiecesText(Tail(ps))

\* a segment is one plain piece (list = "") or one loop block over `list`
Simple(p)     == [list |-> "", body |-> <<p>>]
Loop(l, body) == [list |-> l, body |-> body]

SegText(g) ==
    IF g.list = "" THEN PiecesText(g.body)
    ELSE ForOpen(g.list) \o PiecesText(g.body) \o EndFor

\* the pieces of a segment: a loop block counts its two delimiters
Weight(g) == IF g.list = "" THEN 1 ELSE 2 + Len(g.body)

\* the loop bodies of exactly n pieces
RECURSIVE Bodies(_)
Bodies(n) ==
    IF n = 0 THEN {<<>>}
    ELSE {Append(b, p) : b \in Bodies(n - 1), p \in BodyPieces}

\* the segments of exactly n pieces
Segments(n) ==
    IF n = 1 THEN {Simple(p) : p \in SimplePieces}
    ELSE {Loop(l, b) : l \in ListNames, b \in Bodies(n - 2)}

\* the sequences of segments of exactly n pieces in all
RECURSIVE Templates(_)
Templates(n) ==
    IF n = 0 THEN {<<>>}
    ELSE UNION {{Append(t, g) : t \in Templates(n - k), g \in Segments(k)} : k \in 1..n}

TemplateSet == UNION {Templates(n) : n \in 0..MaxPieces}

RECURSIVE SegsText(_)
SegsText(gs) == IF gs = <<>> THEN <<>> ELSE SegText(Head(gs)) \o SegsText(Tail(gs))

\* the items of the list L, by variant
ItemsPlain == << <<Entry("a", StrV(<<"A">>)), Entry("b", IntV(7))>>,
                 <<Entry("a", StrV(<<"B">>)), Entry("b", IntV(8))>> >>
\* field a holds a reference to field b, which the dict lists after it
ItemsChain == << <<Entry("a", StrV(ItemRef("b"))), Entry("b", StrV(<<"B">>))>> >>
\* the fields hold a variable reference and a ternary expression
ItemsForms == << <<Entry("a", StrV(VarRef("x"))), Entry("b", StrV(TernLang))>> >>

Context(lang_, xval, items) ==
    << Entry("lang", StrV(<<lang_>>)), Entry("x", StrV(xval)), Entry("y", StrV(<<"B">>)),
       Entry("L", ListV(items)), Entry("E", ListV(<<>>)), Entry("S", StrV(<<"fr">>)) >>

ContextSet ==
    {Context(l, c[1], c[2]) :
        l \in {"fr", "en"},
        c \in { <<<<"A">>, ItemsPlain>>, <<VarRef("y"), ItemsChain>>,
                <<TernLang, ItemsForms>>, <<LoopText, ItemsPlain>> }}

-----------------------------------------------------------------------------
(* The variables of the operations that a specification does not run *)

RenderIdle ==
    /\ template = <<>> /\ context = <<>> /\ result = <<>>
    /\ afterFor = <<>> /\ afterCond = <<>> /\ segs = <<>>
MdIdle    == md_lines = <<>> /\ text = <<>> /\ html = <<>>
YtIdle    == url_parts = <<>> /\ url = <<>> /\ video_id = <<>>
BuildIdle == config = Absent /\ lang = "" /\ built = [err |-> FALSE, ctx |-> <<>>]
GenIdle   ==
    /\ config_file = "" /\ template_file = ""
    /\ fs = <<>> /\ fs0 = <<>> /\ location = ""

-----------------------------------------------------------------------------
(* render_template as a state machine: one step per pass *)

RenderInit ==
    /\ pc = "r_start"
    /\ segs \in TemplateSet
    /\ template = SegsText(segs)
    /\ context \in ContextSet
    /\ result = template
    /\ afterFor = <<>>
    /\ afterCond = <<>>
    /\ MdIdle /\ YtIdle /\ BuildIdle /\ GenIdle

\* line 141
RenderFor ==
    /\ pc = "r_start"
    /\ LET r == ForPass(context, result)
       IN  IF r.err
           THEN /\ pc' = "r_raised"
                /\ UNCHANGED <<result, afterFor>>
           ELSE /\ pc' = "r_for"
                /\ result' = r.text
                /\ afterFor' = r.text
    /\ UNCHANGED <<template, context, afterCond, segs, mvars, yvars, bvars, gvars>>

\* line 150
RenderCond ==
    /\ pc = "r_for"
    /\ result' = CondPass(context, result)
    /\ afterCond' = result'
    /\ pc' = "r_cond"
    /\ UNCHANGED <<template, context, afterFor, segs, mvars, yvars, bvars, gvars>>

\* lines 153-157
RenderVars ==
    /\ pc = "r_cond"
    /\ result' = VarPass(context, result)
    /\ pc' = "r_done"
    /\ UNCHANGED <<template, context, afterFor, afterCond, segs, mvars, yvars, bvars, gvars>>

RenderNext == RenderFor \/ RenderCond \/ RenderVars

SpecRender == RenderInit /\ [][RenderNext]_vars

-----------------------------------------------------------------------------
(* Properties of render_template *)

Passed(stage) ==
    CASE stage = "for"  -> pc \in {"r_for", "r_cond", "r_done"}
      [] stage = "cond" -> pc \in {"r_cond", "r_done"}
      [] stage = "vars" -> pc = "r_done"

XVal == Str(Get(context, "x"))
LangIsFr == Get(context, "lang") = StrV(<<"fr">>)

\* some index of s starts a ternary expression
HasCond(s) == \E i \in 1..Len(s) : CondMatchAt(s, i).ok
\* some index of s starts a loop block
HasFor(s) == \E i \in 1..Len(s) : ForMatchAt(s, i).ok

\* the body pieces of one item, each field reference read from the item itself
RECURSIVE ClaimItem(_, _)
ClaimItem(body, item) ==
    IF body = <<>> THEN <<>>
    ELSE (IF Head(body) \in {"a", "b"} THEN Str(Get(item, Head(body)))
          ELSE PieceText(Head(body))) \o ClaimItem(Tail(body), item)

RECURSIVE ClaimItems(_, _)
ClaimItems(body, items) ==
    IF items = <<>> THEN <<>>
    ELSE ClaimItem(body, Head(items)) \o ClaimItems(body, Tail(items))

ClaimSeg(g) ==
    IF g.list = "" THEN SegText(g)
    ELSE IF Get(context, g.list).kind = "list"
         THEN ClaimItems(g.body, Get(context, g.list).items)
         ELSE <<>>

RECURSIVE ClaimSegs(_)
ClaimSegs(gs) == IF gs = <<>> THEN <<>> ELSE ClaimSeg(Head(gs)) \o ClaimSegs(Tail(gs))

\* C2: every loop block is replaced by "" when its list is absent or empty and
\* otherwise by the concatenation, in list order, of one copy of the body per
\* item with each {{ v.field }} replaced by that item's own value of the field;
\* the rest of the template is unchanged by the loop pass.
C2_LoopExpansion == Passed("for") => afterFor = ClaimSegs(segs)

\* the plain pieces {{ m }} of the template that stand outside every loop block
RECURSIVE PlainM(_)
PlainM(gs) ==
    IF gs = <<>> THEN 0
    ELSE (IF Head(gs) = Simple("m") THEN 1 ELSE 0) + PlainM(Tail(gs))

\* C3: render_template raises for no template and no context of scalars and
\* lists of items, and every reference {{ m }} to a key absent from the context
\* stands verbatim in the returned string.
C3_NeverRaises ==
    /\ pc # "r_raised"
    /\ Passed("vars") => Count(result, VarRef("m")) >= PlainM(segs)

\* the ternary pass as the claim states it: each expression gives valTrue when
\* the context value of its variable is the string checkVal, valFalse otherwise
ClaimCond(s) ==
    StrReplace(StrReplace(s, TernLang, IF LangIsFr THEN <<"T">> ELSE <<"F">>),
               TernM, <<"}}">>)

C1_PassOrder ==
    Passed("vars") =>
        /\ Count(result, VarRef("x")) = 0
        /\ Count(afterCond, TernLang) = Count(afterFor, TernOpen \o TernM)
        /\ Count(result, TernLang) = Count(afterCond, TernLang) +
              (IF XVal = TernLang THEN Count(afterCond, VarRef("x")) ELSE 0)
        /\ XVal = LoopText =>
              Count(result, LoopText) = Count(afterCond, VarRef("x")) + Count(afterCond, LoopText)
        /\ XVal = LoopText /\ Count(afterCond, VarRef("x")) > 0 => HasFor(result)

\* the loop pass inserted {{ x }} from an item field, the variable pass replaced
\* it, and the value of x, itself a ternary expression, stands in the result
C1_Witness ==
    /\ pc = "r_done"
    /\ XVal = TernLang
    /\ HasFor(template)
    /\ Count(afterFor, VarRef("x")) > Count(template, VarRef("x"))
    /\ Count(result, VarRef("x")) = 0
    /\ Count(result, TernLang) > 0

-----------------------------------------------------------------------------
(* markdown_to_html applied to texts assembled from a few kinds of line *)

MaxLines == 4

Anchor(label, target) ==
    <<"<a href=\"">> \o target \o <<"\" target=\"_blank\">">> \o label \o <<"</a>">>

\* kind of line |-> the line as written, its class, and its content in the HTML
LineKinds == {"da", "bb", "id", "pc", "pd", "pl", "ws", "em"}

LineRaw(k) ==
    CASE k = "da" -> <<"-", " ", "a">>
      [] k = "bb" -> <<"U+2022", " ", "b">>
      [] k = "id" -> <<" ", "-", " ", " ", "d", " ">>
      [] k = "pc" -> <<"c">>
      [] k = "pd" -> <<"-", "e">>
      [] k = "pl" -> <<"[", "f", "]", "(", "u", ")">>
      [] k = "ws" -> <<" ">>
      [] k = "em" -> <<>>

LineContent(k) ==
    CASE k = "da" -> <<"a">>
      [] k = "bb" -> <<"b">>
      [] k = "id" -> <<"d">>
      [] k = "pc" -> <<"c">>
      [] k = "pd" -> <<"-", "e">>
      [] k = "pl" -> Anchor(<<"f">>, <<"u">>)
      [] OTHER    -> <<>>

BulletKind(k) == k \in {"da", "bb", "id"}
BlankKind(k)  == k \in {"ws", "em"}

RECURSIVE LineSeqs(_)
LineSeqs(n) ==
    IF n = 0 THEN {<<>>}
    ELSE LineSeqs(n - 1) \cup {Append(l, k) : l \in {m \in LineSeqs(n - 1) : Len(m) = n - 1},
                                             k \in LineKinds}

RECURSIVE RawLines(_)
RawLines(ks) == IF ks = <<>> THEN <<>> ELSE <<LineRaw(Head(ks))>> \o RawLines(Tail(ks))

MdInit ==
    /\ pc = "m_start"
    /\ md_lines \in LineSeqs(MaxLines)
    /\ text = JoinNl(RawLines(md_lines))
    /\ html = <<>>
    /\ RenderIdle /\ YtIdle /\ BuildIdle /\ GenIdle

\* lines 20-84
MdConvert ==
    /\ pc = "m_start"
    /\ html' = markdown_to_html(text)
    /\ pc' = "m_done"
    /\ UNCHANGED <<md_lines, text, rvars, yvars, bvars, gvars>>

MdNext == MdConvert

SpecMarkdown == MdInit /\ [][MdNext]_vars

\* the lines of the block: those of the text without the blank ones at its ends
Core(ks) ==
    LET N == {i \in 1..Len(ks) : ~BlankKind(ks[i])}
    IN  IF N = {} THEN <<>>
        ELSE SubSeq(ks, Min(N), CHOOSE j \in N : \A i \in N : i <= j)

\* one block: no empty line stands in the text
OneBlock == \A i \in 1..Len(md_lines) : md_lines[i] # "em"

\* some but not all lines of the block are bullet lines
MixedBlock ==
    /\ OneBlock
    /\ \E i \in 1..Len(Core(md_lines)) : BulletKind(Core(md_lines)[i])
    /\ \E i \in 1..Len(Core(md_lines)) : ~BulletKind(Core(md_lines)[i])

\* the line that decides whether line i goes on the list of the line before it:
\* the line just before, or (when blank lines do not count) the nearest line
\* before it that is not blank; 0 when there is none
PrevLine(ks, i, blankSplits) ==
    LET P == {j \in 1..(i - 1) : blankSplits \/ ~BlankKind(ks[j])}
    IN  IF P = {} THEN 0 ELSE CHOOSE j \in P : \A q \in P : q <= j

NextLine(ks, i, blankSplits) ==
    LET P == {j \in (i + 1)..Len(ks) : blankSplits \/ ~BlankKind(ks[j])}
    IN  IF P = {} THEN 0 ELSE Min(P)

\* what line i contributes: a paragraph, or a list item that opens the list
\* after a line that is no bullet and closes it before one
EmitLine(ks, i, blankSplits) ==
    LET p == PrevLine(ks, i, blankSplits)
        n == NextLine(ks, i, blankSplits)
    IN  IF BulletKind(ks[i])
        THEN (IF p = 0 \/ ~BulletKind(ks[p]) THEN <<"<ul>">> ELSE <<>>)
                \o <<"<li>">> \o LineContent(ks[i]) \o <<"</li>">>
                \o (IF n = 0 \/ ~BulletKind(ks[n]) THEN <<"</ul>">> ELSE <<>>)
        ELSE IF BlankKind(ks[i]) THEN <<>>
        ELSE <<"<p>">> \o LineContent(ks[i]) \o <<"</p>">>

ExpectMixed(ks, blankSplits) ==
    Flatten([i \in 1..Len(ks) |-> EmitLine(ks, i, blankSplits)])

\* C4 as stated: a mixed block gives, in line order, one paragraph per line that
\* is neither a bullet nor blank and one list per run of bullet lines, a
\* white-space-only line between two bullet lines not splitting the list.
C4_BlankKeepsList ==
    pc = "m_done" /\ MixedBlock => html = ExpectMixed(Core(md_lines), FALSE)

\* C4 amended: as stated, except that the pending list is closed by every line
\* that is no bullet line, a white-space-only line included, and at block end.
C4_MixedBlock ==
    pc = "m_done" /\ MixedBlock => html = ExpectMixed(Core(md_lines), TRUE)

\* a mixed block with a paragraph line and a blank line between two bullet lines
C4_Witness ==
    /\ pc = "m_done"
    /\ MixedBlock
    /\ \E i \in 1..(Len(md_lines) - 2) :
          BulletKind(md_lines[i]) /\ md_lines[i + 1] = "ws" /\ BulletKind(md_lines[i + 2])
    /\ \E i \in 1..Len(md_lines) : md_lines[i] \in {"pc", "pl"}
    /\ Count(html, <<"<ul>">>) = 2

-----------------------------------------------------------------------------
(* extract_youtube_id applied to URLs assembled from parts: a shape (or the  *)
(* character "h"), a token of the identifier alphabet, and the separator "&" *)

MaxParts == 2
Slack    == 1

IdCharSeq == <<"d", "Q", "w", "4", "_", "9", "-", "X", "c", "a", "Z", "0">>

\* the token of part p: len characters, starting at the p-th of IdCharSeq
Token(len, p) == [i \in 1..len |-> IdCharSeq[((i + p - 2) % Len(IdCharSeq)) + 1]]

TokenLens == {0} \cup ((IdLen - Slack)..(IdLen + Slack))

Parts == [shape : Shapes \cup {"h"}, len : TokenLens]

RECURSIVE PartSeqs(_)
PartSeqs(n) ==
    IF n = 0 THEN {<<>>}
    ELSE PartSeqs(n - 1) \cup {Append(l, q) : l \in {m \in PartSeqs(n - 1) : Len(m) = n - 1},
                                             q \in Parts}

RECURSIVE PartsUrl(_, _)
PartsUrl(ps, k) ==
    IF k > Len(ps) THEN <<>>
    ELSE <<ps[k].shape>> \o Token(ps[k].len, k) \o <<"&">> \o PartsUrl(ps, k + 1)

YtInit ==
    /\ pc = "y_start"
    /\ url_parts \in PartSeqs(MaxParts)
    /\ url = PartsUrl(url_parts, 1)
    /\ video_id = <<>>
    /\ RenderIdle /\ MdIdle /\ BuildIdle /\ GenIdle

\* lines 96-102
YtExtract ==
    /\ pc = "y_start"
    /\ video_id' = extract_youtube_id(url)
    /\ pc' = "y_done"
    /\ UNCHANGED <<url_parts, url, rvars, mvars, bvars, gvars>>

YtNext == YtExtract

SpecYoutube == YtInit /\ [][YtNext]_vars

\* the first part that is a shape followed by a token the predicate accepts
FirstPart(ok(_)) ==
    LET S == {k \in 1..Len(url_parts) : url_parts[k].shape \in Shapes /\ ok(url_parts[k].len)}
    IN  IF S = {} THEN 0 ELSE Min(S)

ExactLen(n)   == n = IdLen
AtLeastLen(n) == n >= IdLen

ExpectId(k) == IF k = 0 THEN <<>> ELSE SubSeq(Token(url_parts[k].len, k), 1, IdLen)

\* C9 as stated: the identifier of the first shape followed by a token of
\* exactly 11 characters, "" when there is none; a shape followed by a shorter
\* or a longer token is no match.
C9_ExactToken == pc = "y_done" => video_id = ExpectId(FirstPart(ExactLen))

\* C9 amended: the first 11 characters after the first shape that is followed
\* by at least 11 characters of the alphabet, "" when there is none; a shorter
\* token is no match and a longer one is cut to its first 11 characters.
C9_FirstEleven == pc = "y_done" => video_id = ExpectId(FirstPart(AtLeastLen))

\* the first shape has a token too short and the second one a token too long
C9_Witness ==
    /\ pc = "y_done"
    /\ Len(url_parts) = 2
    /\ url_parts[1].shape \in Shapes /\ url_parts[1].len = IdLen - 1
    /\ url_parts[2].shape \in Shapes /\ url_parts[2].len = IdLen + 1
    /\ Len(video_id) = IdLen

-----------------------------------------------------------------------------
(* build_context applied to content documents: a base document with one     *)
(* field given each shape in turn, or with each gallery URL                 *)

MaxUrlParts == 3

Langs == {"fr", "en"}

Bi(fr, en) == DictV(<<Entry("fr", StrV(fr)), Entry("en", StrV(en))>>)

\* d[k] = v; a value Absent removes the key
DictSet(d, k, v) ==
    LET kept == SelectSeq(d.items, LAMBDA e : e.key # k)
    IN  DictV(IF v.kind = "none" THEN kept ELSE Append(kept, Entry(k, v)))

GoodVideoUrl == <<"h", "youtu.be/">> \o Token(IdLen, 1)
BadVideoUrl  == <<"h", "/", "v">>

BaseDoc ==
    DictV(<<
      Entry("nom", StrV(<<"Etienne">>)),
      Entry("titre", Bi(<<"Chercheur">>, <<"Researcher">>)),
      Entry("photo", StrV(<<"photo.jpg">>)),
      Entry("css_path", StrV(<<"style.css">>)),
      Entry("affiliation", DictV(<<
          Entry("institution", StrV(<<"UdeM">>)),
          Entry("departement", Bi(<<"Physique">>, <<"Physics">>)) >>)),
      Entry("liens", DictV(<<
          Entry("email", StrV(<<"mail">>)),
          Entry("orcid", StrV(<<"orcid">>)),
          Entry("galerie_oiseaux", StrV(<<"g", "_", "f", "r">>)) >>)),
      Entry("intro", Bi(<<" ", "Bonjour", "\n">>, <<"Hello", " ">>)),
      Entry("recherche", DictV(<<
          Entry("titre", Bi(<<"Recherche">>, <<"Research">>)),
          Entry("photo", StrV(<<"r.jpg">>)),
          Entry("contenu", Bi(<<"-", " ", "a", "\n", "c">>, <<"c", "\n", "\n", "-", " ", "a">>)) >>)),
      Entry("medias", DictV(<<
          Entry("titre", Bi(<<"Medias">>, <<"Media">>)),
          Entry("ads_url", StrV(<<"ads">>)),
          Entry("ads_texte", Bi(<<"Publications">>, <<"Papers">>)),
          Entry("decouvertes_titre", Bi(<<"Decouvertes">>, <<"Discoveries">>)),
          Entry("videos", ListV(<<
              <<Entry("url", StrV(GoodVideoUrl)), Entry("titre", Bi(<<"Video">>, <<"Clip">>))>>,
              <<Entry("url", StrV(BadVideoUrl)), Entry("titre", StrV(<<"Autre">>))>> >>)),
          Entry("decouvertes", ListV(<<
              <<Entry("titre", DictV(<<Entry("fr", StrV(<<"Planete">>))>>)),
                Entry("annee", IntV(2020)), Entry("url", StrV(<<"u">>))>> >>)) >>)),
      Entry("oiseaux", DictV(<<
          Entry("titre", Bi(<<"Oiseaux">>, <<"Birds">>)),
          Entry("photo", StrV(<<"o.jpg">>)),
          Entry("contenu", Bi(<<"c">>, <<"c">>)) >>)),
      Entry("footer", Bi(<<"Pied">>, <<"Foot">>)) >>)

\* the shapes a field takes: absent, a str, an int, a language mapping with
\* both entries, with one of them, with none
FieldShapes ==
    { Absent, StrV(<<"s">>), IntV(5), Bi(<<"F">>, <<"E">>),
      DictV(<<Entry("fr", StrV(<<"F">>))>>), DictV(<<Entry("en", StrV(<<"E">>))>>), EmptyDict }

\* context key |-> the field of the document it is taken from
FieldMap ==
    { [key |-> "nom",               sec |-> "",            field |-> "nom"],
      [key |-> "titre",             sec |-> "",            field |-> "titre"],
      [key |-> "photo",             sec |-> "",            field |-> "photo"],
      [key |-> "css_path",          sec |-> "",            field |-> "css_path"],
      [key |-> "footer_text",       sec |-> "",            field |-> "footer"],
      [key |-> "affiliation_inst",  sec |-> "affiliation", field |-> "institution"],
      [key |-> "affiliation_dept",  sec |-> "affiliation", field |-> "departement"],
      [key |-> "email",             sec |-> "liens",       field |-> "email"],
      [key |-> "orcid",             sec |-> "liens",       field |-> "orcid"],
      [key |-> "recherche_titre",   sec |-> "recherche",   field |-> "titre"],
      [key |-> "recherche_photo",   sec |-> "recherche",   field |-> "photo"],
      [key |-> "medias_titre",      sec |-> "medias",      field |-> "titre"],
      [key |-> "ads_url",           sec |-> "medias",      field |-> "ads_url"],
      [key |-> "ads_texte",         sec |-> "medias",      field |-> "ads_texte"],
      [key |-> "decouvertes_titre", sec |-> "medias",      field |-> "decouvertes_titre"],
      [key |-> "oiseaux_titre",     sec |-> "oiseaux",     field |-> "titre"],
      [key |-> "oiseaux_photo",     sec |-> "oiseaux",     field |-> "photo"] }

SectionNames == {"affiliation", "liens", "recherche", "medias", "oiseaux"}

SetField(doc, f, v) ==
    IF f.sec = "" THEN DictSet(doc, f.field, v)
    ELSE DictSet(doc, f.sec, DictSet(Get(doc.items, f.sec), f.field, v))

UrlParts == { <<"_", "f", "r">>, <<"_">>, <<"f", "r">>, <<"g">>, <<"/">> }

RECURSIVE Urls(_)
Urls(n) ==
    IF n = 0 THEN {<<>>}
    ELSE Urls(n - 1) \cup {u \o q : u \in Urls(n - 1), q \in UrlParts}

GalleryField == [key |-> "oiseaux_lien", sec |-> "liens", field |-> "galerie_oiseaux"]

Documents ==
    {SetField(BaseDoc, f, v) : f \in FieldMap, v \in FieldShapes}
        \cup {SetField(BaseDoc, GalleryField, StrV(u)) : u \in Urls(MaxUrlParts)}
        \cup {DictSet(BaseDoc, sec, Absent) : sec \in SectionNames}

BuildInit ==
    /\ pc = "b_start"
    /\ config \in Documents
    /\ lang \in Langs
    /\ built = [err |-> FALSE, ctx |-> <<>>]
    /\ RenderIdle /\ MdIdle /\ YtIdle /\ GenIdle

\* lines 175-267
BuildContext ==
    /\ pc = "b_start"
    /\ built' = build_context(config, lang)
    /\ pc' = IF built'.err THEN "b_raised" ELSE "b_done"
    /\ UNCHANGED <<config, lang, rvars, mvars, yvars, gvars>>

BuildNext == BuildContext

SpecContext == BuildInit /\ [][BuildNext]_vars

\* the field f of the document, Absent when it or its section is missing
FieldOf(doc, f) ==
    IF f.sec = "" THEN Get(doc.items, f.field)
    ELSE IF Has(doc.items, f.sec) THEN Get(Get(doc.items, f.sec).items, f.field)
    ELSE Absent

\* the rule of the claim: the lang entry of a mapping, else its fr entry, else
\* ""; the string form of a scalar; "" for an absent field
Fallback(v, lang_) ==
    CASE v.kind = "none" -> EmptyStr
      [] v.kind = "dict" -> IF Has(v.items, lang_) THEN Get(v.items, lang_)
                            ELSE IF Has(v.items, "fr") THEN Get(v.items, "fr")
                            ELSE EmptyStr
      [] OTHER           -> StrV(Str(v))

\* C5: build_context raises for no shape of a field, and every context value
\* taken from a document field (nom, photo, css_path and footer included)
\* follows the rule: mapping -> lang entry, else fr entry, else ""; scalar ->
\* its string form; absent -> "".
C5_OneRule ==
    /\ pc # "b_raised"
    /\ pc = "b_done" =>
          \A f \in FieldMap : Get(built.ctx, f.key) = Fallback(FieldOf(config, f), lang)

GalleryUrl == Str(FieldOf(config, GalleryField))

\* the indices of u where '_fr' stands (two of them never overlap)
Occurrences(u) == {i \in 1..Len(u) : StartsAt(u, <<"_", "f", "r">>, i)}

\* u with the two characters after the "_" at each index of I replaced by lang
Relabel(u, I, lang_) ==
    [i \in 1..Len(u) |->
        IF \E j \in I : i \in (j + 1)..(j + 2)
        THEN Chars(lang_)[i - (CHOOSE j \in I : i \in (j + 1)..(j + 2))]
        ELSE u[i]]

FirstOnly(I) == IF I = {} THEN {} ELSE {Min(I)}

\* C8 as stated: oiseaux_lien is the gallery URL with only the first '_fr'
\* replaced by '_' + lang, later occurrences unchanged.
C8_FirstOccurrence ==
    pc = "b_done" =>
        Get(built.ctx, "oiseaux_lien") =
            StrV(Relabel(GalleryUrl, FirstOnly(Occurrences(GalleryUrl)), lang))

\* C8 amended: oiseaux_lien is the gallery URL with every occurrence of '_fr'
\* replaced by '_' + lang; for lang = "fr" the value equals the gallery URL.
C8_EveryOccurrence ==
    pc = "b_done" =>
        /\ Get(built.ctx, "oiseaux_lien") =
              StrV(Relabel(GalleryUrl, Occurrences(GalleryUrl), lang))
        /\ lang = "fr" => Get(built.ctx, "oiseaux_lien") = StrV(GalleryUrl)

\* a gallery URL that holds '_fr' twice, built for English
C8_Witness ==
    /\ pc = "b_done"
    /\ lang = "en"
    /\ Cardinality(Occurrences(GalleryUrl)) >= 2
    /\ Occurrences(Get(built.ctx, "oiseaux_lien").s) = {}

-----------------------------------------------------------------------------
(* generate_pages: the two loads, one page per language, the redirect page, *)
(* and the browser that opens index.html                                    *)

IndexFile(l) == <<"index_", l, ".html">>
RedirectFile == <<"index", ".html">>
OutFiles     == {IndexFile("fr"), IndexFile("en"), RedirectFile}

NoFile      == [exists |-> FALSE, data |-> <<>>]
File(data)  == [exists |-> TRUE, data |-> data]

\* lines 302-316: the refresh target, the script and the two links
redirect_html ==
    << "<meta refresh>", IndexFile("fr"), "<script>", "startsWith", "fr", "</script>",
       "<a>", IndexFile("fr"), "<a>", IndexFile("en") >>

\* userLang.startsWith('en') ? 'en' : 'fr'
RedirectTargetFrDefault(userLang) ==
    LET targetLang == IF StartsAt(userLang, <<"e", "n">>, 1) THEN "en" ELSE "fr"
    IN  <<"index_", targetLang, ".html">>

\* lines 308-310: userLang.startsWith('fr') ? 'fr' : 'en', then the page of it
RedirectTarget(userLang) ==
    LET targetLang == IF StartsAt(userLang, <<"f", "r">>, 1) THEN "fr" ELSE "en"
    IN  <<"index_", targetLang, ".html">>

\* line 306: content="0; url=index_fr.html"
RefreshTarget == <<"index_", "fr", ".html">>

\* navigator.language values, character by character
UserLangs ==
    { <<"f", "r">>, <<"f", "r", "-", "C", "A">>, <<"e", "n">>, <<"e", "n", "-", "U", "S">>,
      <<"d", "e">>, <<"e", "s">>, <<"f", "i">> }

\* the redirect page written first, the loads after it
StepAfterRedirectFirst(step) ==
    CASE step = "g_begin"         -> "g_redirect"
      [] step = "g_redirect"      -> "g_load_config"
      [] step = "g_load_config"   -> "g_load_template"
      [] step = "g_load_template" -> "g_fr"
      [] step = "g_fr"            -> "g_en"
      [] step = "g_en"            -> "g_done"

\* the order of the statements of generate_pages (lines 282, 286, 292, 318)
StepAfter(step) ==
    CASE step = "g_begin"         -> "g_load_config"
      [] step = "g_load_config"   -> "g_load_template"
      [] step = "g_load_template" -> "g_fr"
      [] step = "g_fr"            -> "g_en"
      [] step = "g_en"            -> "g_redirect"
      [] step = "g_redirect"      -> "g_done"

\* a document whose intro has an int as its English entry: .strip() raises for en
DocEnRaises ==
    DictSet(BaseDoc, "intro", DictV(<<Entry("fr", StrV(<<"Bonjour">>)), Entry("en", IntV(5))>>))

ConfigFiles ==
    {[state |-> "ok", doc |-> d] :
        d \in {BaseDoc, Absent, DictSet(BaseDoc, "footer", StrV(<<"s">>)), DocEnRaises}}
      \cup {[state |-> st, doc |-> Absent] : st \in {"missing", "unreadable", "malformed"}}

TemplateFiles ==
    {[state |-> "ok", text |-> t] :
        t \in { <<"<p>">> \o VarRef("titre") \o <<"</p>">>,
                <<"{%", " ", "for", " ", "v", " ", "in", " ", "videos", " ", "%}">>
                    \o ItemRef("video_id") \o ItemRef("titre") \o EndFor
                    \o TernLang \o VarRef("oiseaux_lien") \o VarRef("footer_text"),
                <<"{%", " ", "for", " ", "v", " ", "in", " ", "nom", " ", "%}">> \o EndFor }}
      \cup {[state |-> st, text |-> <<>>] : st \in {"missing", "unreadable"}}

GenInit ==
    /\ pc = StepAfter("g_begin")
    /\ config_file \in ConfigFiles
    /\ template_file \in TemplateFiles
    /\ fs0 \in [OutFiles -> {NoFile, File(<<"old">>)}]
    /\ fs = fs0
    /\ location = [userLang |-> <<>>, scripting |-> FALSE, href |-> <<>>]
    /\ config = Absent /\ lang = "" /\ built = [err |-> FALSE, ctx |-> <<>>]
    /\ RenderIdle /\ MdIdle /\ YtIdle

\* lines 282-283
LoadConfig ==
    /\ pc = "g_load_config"
    /\ IF config_file.state = "ok"
       THEN config' = config_file.doc /\ pc' = StepAfter(pc)
       ELSE config' = config /\ pc' = "g_raised"
    /\ UNCHANGED <<lang, built, rvars, mvars, yvars, gvars>>

\* lines 286-287
LoadTemplate ==
    /\ pc = "g_load_template"
    /\ IF template_file.state = "ok"
       THEN template' = template_file.text /\ pc' = StepAfter(pc)
       ELSE template' = template /\ pc' = "g_raised"
    /\ UNCHANGED <<context, result, afterFor, afterCond, segs, mvars, yvars, bvars, gvars>>

\* lines 293-298: one turn of the loop over ['fr', 'en']
GenerateLang(l) ==
    /\ pc = "g_" \o l
    /\ \E b \in {build_context(config, l)} :
       \E r \in {IF b.err THEN Raise ELSE render_template(template, b.ctx)} :
           IF r.err
           THEN pc' = "g_raised" /\ fs' = fs
           ELSE pc' = StepAfter(pc) /\ fs' = [fs EXCEPT ![IndexFile(l)] = File(r.text)]
    /\ lang' = l
    /\ UNCHANGED <<config, built, rvars, mvars, yvars, config_file, template_file, fs0, location>>

\* lines 318-319
WriteRedirect ==
    /\ pc = "g_redirect"
    /\ fs' = [fs EXCEPT ![RedirectFile] = File(redirect_html)]
    /\ pc' = StepAfter(pc)
    /\ UNCHANGED <<rvars, mvars, yvars, bvars, config_file, template_file, fs0, location>>

\* a browser whose preferred language is userLang opens index.html: the script
\* (lines 307-311) navigates when the browser runs scripts, the refresh
\* (line 306) when it does not
Browse(userLang, scripting) ==
    /\ pc = "g_done"
    /\ fs[RedirectFile] = File(redirect_html)
    /\ location' = [userLang |-> userLang, scripting |-> scripting,
                    href |-> IF scripting THEN RedirectTarget(userLang) ELSE RefreshTarget]
    /\ pc' = "g_browsed"
    /\ UNCHANGED <<rvars, mvars, yvars, bvars, config_file, template_file, fs, fs0>>

GenNext ==
    \/ LoadConfig
    \/ LoadTemplate
    \/ \E l \in Langs : GenerateLang(l)
    \/ WriteRedirect
    \/ \E userLang \in UserLangs, scripting \in BOOLEAN : Browse(userLang, scripting)

SpecGenerate == GenInit /\ [][GenNext]_vars

InputsLoaded ==
    /\ config_file.state = "ok" /\ template_file.state = "ok"
    /\ config = config_file.doc /\ template = template_file.text
    /\ pc \notin {"g_load_config", "g_load_template"}

\* C6: when the content document or the template cannot be loaded, the run
\* ends with none of the three output files created or overwritten; a file of
\* output_dir differs from what it was only after both loads succeeded.
C6_NoOutputBeforeLoads ==
    /\ (config_file.state # "ok" \/ template_file.state # "ok") => fs = fs0
    /\ fs # fs0 => InputsLoaded

\* the document was loaded, the template could not be, and the files that were
\* there are untouched
C6_Witness ==
    /\ pc = "g_raised"
    /\ config_file.state = "ok" /\ config = BaseDoc
    /\ template_file.state = "unreadable"
    /\ fs = fs0
    /\ \A f \in OutFiles : fs[f] = File(<<"old">>)

\* C7 as stated: the redirect page sends the browser to index_en.html exactly
\* when the preferred language begins with "en" and to index_fr.html for every
\* other language.
C7_FrenchUnlessEn ==
    pc = "g_browsed" =>
        location.href = IF StartsAt(location.userLang, <<"e", "n">>, 1)
                        THEN IndexFile("en") ELSE IndexFile("fr")

\* C7 amended: in a browser that runs scripts the redirect page leads to
\* index_fr.html exactly when the preferred language begins with "fr" and to
\* index_en.html for every other language, those beginning with neither
\* included; in a browser that runs no script it leads to index_fr.html.
C7_EnglishUnlessFr ==
    pc = "g_browsed" =>
        location.href = IF location.scripting
                           /\ ~StartsAt(location.userLang, <<"f", "r">>, 1)
                        THEN IndexFile("en") ELSE IndexFile("fr")

\* a browser preferring German, running scripts, was sent to the English page
C7_Witness ==
    /\ pc = "g_browsed"
    /\ location.userLang = <<"d", "e">>
    /\ location.scripting
    /\ location.href = IndexFile("en")
    /\ fs[IndexFile("en")].exists

=============================================================================
